---- MODULE Spec2Model ----
(***************************************************************************)
(* A model of the `ol` interpreter: the name-resolution pass               *)
(* (src/src/resolve.rs, src/src/expression.rs) and the tree-walking        *)
(* evaluator with type-indexed method dispatch (src/src/vm.rs).            *)
(***************************************************************************)
EXTENDS Integers, Sequences, FiniteSets, TLC

VARIABLES
    methods,            \* VM.methods: Type -> (name -> Method)
    local_variables,    \* VM.local_variables: the single shared value stack
    class_id_counter,   \* VM.class_id_counter
    class_ids,          \* the map load_program returned (class name -> ClassID)
    program,            \* the Program handed to load_program (<<>> before)
    status,             \* "new" | "loaded" | "running" | "done" | "panicked"
    ctrl,               \* what evaluate_expression is doing now
    kont,               \* the Rust call stack: frames of the callers, innermost last
    output,             \* lines written by println!, oldest first
    trace,              \* history of evaluation events (for ordering properties)
    panic,              \* why the process panicked ("" while it has not)
    r_in,               \* the resolver on its own: a scope and a body
    r_out               \* the resolver on its own: << >>, then << its result >>

vars == << methods, local_variables, class_id_counter, class_ids, program,
           status, ctrl, kont, output, trace, panic, r_in, r_out >>

vm_vars == << methods, local_variables, class_id_counter, class_ids, program,
              status, ctrl, kont, output, trace, panic >>

(***************************************************************************)
(* Bounds of the model.                                                    *)
(***************************************************************************)
MaxScope == 2       \* longest ambient scope handed to the resolver under test
MaxParams == 2      \* most parameters of a generated method
MaxFrames == 12     \* deepest Rust call stack followed (recursive methods)

(***************************************************************************)
(* value.rs / typ.rs                                                       *)
(***************************************************************************)
Unit == [tag |-> "Unit"]
Bool(b) == [tag |-> "Bool", b |-> b]
I32(n) == [tag |-> "I32", n |-> n]
String(s) == [tag |-> "String", s |-> s]
Object(class) == [tag |-> "Object", class |-> class]

TypeUnit == [tag |-> "Unit"]
TypeBool == [tag |-> "Bool"]
TypeI32 == [tag |-> "I32"]
TypeString == [tag |-> "String"]
TypeObject(class_id) == [tag |-> "Object", class |-> class_id]

typ(value) ==
    CASE value.tag = "Object" -> TypeObject(value.class)
      [] value.tag = "Unit" -> TypeUnit
      [] value.tag = "Bool" -> TypeBool
      [] value.tag = "I32" -> TypeI32
      [] value.tag = "String" -> TypeString

(***************************************************************************)
(* expression.rs: the tree, in its named form (name, name_or_de_bruijn_    *)
(* index are strings) and its resolved form (name is (), written <<>>, and *)
(* name_or_de_bruijn_index is a number).                                   *)
(***************************************************************************)
Literal(value) == [k |-> "Literal", value |-> value]
MethodCall(name, this, arguments) ==
    [k |-> "MethodCall", name |-> name, this |-> this, arguments |-> arguments]
LocalVariable(x) == [k |-> "LocalVariable", name_or_de_bruijn_index |-> x]
LetIn(name, bound, body) ==
    [k |-> "LetIn", name |-> name, bound |-> bound, body |-> body]
IfThenElse(condition, if_true, if_false) ==
    [k |-> "IfThenElse", condition |-> condition, if_true |-> if_true,
     if_false |-> if_false]
Do(steps) == [k |-> "Do", steps |-> steps]

(***************************************************************************)
(* resolve.rs: Resolver::resolve_expression.  The resolver's state is its  *)
(* scope stack `local_variables` (innermost last); a call returns          *)
(* Ok(expression) or Err("variable `name` is not defined"), and leaves the *)
(* scope stack in `scope`.  `?` returns at once: what follows it in the    *)
(* source (a pop included) does not run.                                   *)
(***************************************************************************)
Ok(expr, scope) == [ok |-> TRUE, expr |-> expr, scope |-> scope]
Err(name, scope) == [ok |-> FALSE, err |-> name, scope |-> scope]

\* .iter().rev().position(|variable| *variable == name): the distance from the
\* end of the first match found searching backwards; -1 stands for None.
\* (a variant: .iter().position(..), the search from the outermost binding)
RECURSIVE position_from_start(_, _)
position_from_start(scope, name) ==
    IF scope = << >> THEN -1
    ELSE IF scope[1] = name THEN 0
    ELSE LET rest == position_from_start(Tail(scope), name)
         IN  IF rest = -1 THEN -1 ELSE rest + 1

RECURSIVE rev_position(_, _)
rev_position(scope, name) ==
    IF scope = << >> THEN -1
    ELSE IF scope[Len(scope)] = name THEN 0
    ELSE LET rest == rev_position(SubSeq(scope, 1, Len(scope) - 1), name)
         IN  IF rest = -1 THEN -1 ELSE rest + 1

RECURSIVE resolve_expression(_, _)
RECURSIVE resolve_all(_, _)

\* The LetIn arm, resolve.rs:39-48: the name is pushed first, then `bound`
\* and `body` are both resolved, then the name is popped.
resolve_let_in(scope, expression) ==
    LET pushed == Append(scope, expression.name)
        bound == resolve_expression(pushed, expression.bound)
    IN  IF ~bound.ok THEN bound
        ELSE LET body == resolve_expression(bound.scope, expression.body)
             IN  IF ~body.ok THEN body
                 ELSE Ok(LetIn(<< >>, bound.expr, body.expr),
                         SubSeq(body.scope, 1, Len(body.scope) - 1))

\* The LocalVariable arm, resolve.rs:27-38.
resolve_local_variable(scope, expression) ==
    LET position == rev_position(scope, expression.name_or_de_bruijn_index)
    IN  IF position = -1
        THEN Err(expression.name_or_de_bruijn_index, scope)
        ELSE Ok(LocalVariable(position), scope)

resolve_expression(scope, expression) ==
    CASE expression.k = "Literal" -> Ok(Literal(expression.value), scope)
      [] expression.k = "MethodCall" ->
            LET this == resolve_expression(scope, expression.this)
            IN  IF ~this.ok THEN this
                ELSE LET arguments == resolve_all(this.scope, expression.arguments)
                     IN  IF ~arguments.ok THEN arguments
                         ELSE Ok(MethodCall(expression.name, this.expr,
                                            arguments.expr), arguments.scope)
      [] expression.k = "LocalVariable" ->
            resolve_local_variable(scope, expression)
      [] expression.k = "LetIn" -> resolve_let_in(scope, expression)
      [] expression.k = "IfThenElse" ->
            LET condition == resolve_expression(scope, expression.condition)
            IN  IF ~condition.ok THEN condition
                ELSE LET if_true == resolve_expression(condition.scope,
                                                       expression.if_true)
                     IN  IF ~if_true.ok THEN if_true
                         ELSE LET if_false == resolve_expression(
                                      if_true.scope, expression.if_false)
                              IN  IF ~if_false.ok THEN if_false
                                  ELSE Ok(IfThenElse(condition.expr, if_true.expr,
                                                     if_false.expr),
                                          if_false.scope)
      [] expression.k = "Do" ->
            LET steps == resolve_all(scope, expression.steps)
            IN  IF ~steps.ok THEN steps ELSE Ok(Do(steps.expr), steps.scope)

\* .into_iter().map(|e| self.resolve_expression(e)).collect::<Result<_>>():
\* left to right, stopping at the first Err.
resolve_all(scope, expressions) ==
    IF expressions = << >> THEN Ok(<< >>, scope)
    ELSE LET first == resolve_expression(scope, Head(expressions))
         IN  IF ~first.ok THEN first
             ELSE LET rest == resolve_all(first.scope, Tail(expressions))
                  IN  IF ~rest.ok THEN rest
                      ELSE Ok(<< first.expr >> \o rest.expr, rest.scope)

(***************************************************************************)
(* expression.rs: ExpressionOf::resolve and its private Resolver.  It      *)
(* returns the resolved expression or panics (`.unwrap()` on a name that   *)
(* is not in scope); the branches of an IfThenElse are resolved by a fresh *)
(* Resolver whose scope is empty.                                          *)
(***************************************************************************)
Panicked(scope) == [ok |-> FALSE, err |-> "panic", scope |-> scope]

RECURSIVE of_resolve_expression(_, _)
RECURSIVE of_resolve_all(_, _)

\* expression.rs:30-35
resolve(expression) == of_resolve_expression(<< >>, expression)

of_resolve_expression(scope, expression) ==
    CASE expression.k = "Literal" -> Ok(Literal(expression.value), scope)
      [] expression.k = "MethodCall" ->
            LET this == of_resolve_expression(scope, expression.this)
            IN  IF ~this.ok THEN this
                ELSE LET arguments == of_resolve_all(this.scope,
                                                     expression.arguments)
                     IN  IF ~arguments.ok THEN arguments
                         ELSE Ok(MethodCall(expression.name, this.expr,
                                            arguments.expr), arguments.scope)
      [] expression.k = "LocalVariable" ->
            LET position == rev_position(scope,
                                         expression.name_or_de_bruijn_index)
            IN  IF position = -1 THEN Panicked(scope)
                ELSE Ok(LocalVariable(position), scope)
      [] expression.k = "LetIn" ->
            LET pushed == Append(scope, expression.name)
                bound == of_resolve_expression(pushed, expression.bound)
            IN  IF ~bound.ok THEN bound
                ELSE LET body == of_resolve_expression(bound.scope,
                                                       expression.body)
                     IN  IF ~body.ok THEN body
                         ELSE Ok(LetIn(<< >>, bound.expr, body.expr),
                                 SubSeq(body.scope, 1, Len(body.scope) - 1))
      [] expression.k = "IfThenElse" ->
            LET condition == resolve(expression.condition)
            IN  IF ~condition.ok THEN Panicked(scope)
                ELSE LET if_true == resolve(expression.if_true)
                     IN  IF ~if_true.ok THEN Panicked(scope)
                         ELSE LET if_false == resolve(expression.if_false)
                              IN  IF ~if_false.ok THEN Panicked(scope)
                                  ELSE Ok(IfThenElse(condition.expr, if_true.expr,
                                                     if_false.expr), scope)
      [] expression.k = "Do" ->
            LET steps == of_resolve_all(scope, expression.steps)
            IN  IF ~steps.ok THEN steps ELSE Ok(Do(steps.expr), steps.scope)

of_resolve_all(scope, expressions) ==
    IF expressions = << >> THEN Ok(<< >>, scope)
    ELSE LET first == of_resolve_expression(scope, Head(expressions))
         IN  IF ~first.ok THEN first
             ELSE LET rest == of_resolve_all(first.scope, Tail(expressions))
                  IN  IF ~rest.ok THEN rest
                      ELSE Ok(<< first.expr >> \o rest.expr, rest.scope)

(***************************************************************************)
(* program.rs, and vm.rs:64-69: load_program resolves a method's body with *)
(* a fresh Resolver whose scope is "this" followed by the parameters.      *)
(***************************************************************************)
ClassMethod(name, parameters, body) ==
    [name |-> name, parameters |-> parameters, body |-> body]
Class(name, class_methods) == [name |-> name, methods |-> class_methods]

initial_scope(parameters) == << "this" >> \o parameters

resolve_method(method) ==
    resolve_expression(initial_scope(method.parameters), method.body)

(***************************************************************************)
(* Inputs of the resolver under test.                                      *)
(***************************************************************************)
Names == {"this", "x", "y"}

RECURSIVE SeqsUpTo(_, _)
SeqsUpTo(S, n) ==
    IF n = 0 THEN {<< >>}
    ELSE LET shorter == SeqsUpTo(S, n - 1)
         IN  shorter \cup {Append(s, x) : s \in shorter, x \in S}

Scopes == SeqsUpTo(Names, MaxScope)

NamedVars == {LocalVariable(n) : n \in Names}
NamedAtoms == NamedVars \cup {Literal(I32(5))}
NamedLets == {LetIn(n, a, b) : n \in Names, a \in NamedAtoms, b \in NamedAtoms}
NamedVarLets == {LetIn(n, a, b) : n \in Names, a \in NamedVars, b \in NamedVars}
NamedExpressions ==
    NamedAtoms \cup NamedLets
    \cup {LetIn(n, a, l) : n \in Names, a \in NamedVars, l \in NamedVarLets}
    \cup {LetIn(n, l, a) : n \in Names, a \in NamedVars, l \in NamedVarLets}
    \cup {MethodCall("m", a, args) : a \in NamedAtoms,
                                     args \in SeqsUpTo(NamedAtoms, 2)}
    \cup {IfThenElse(a, b, c) : a \in NamedAtoms, b \in NamedAtoms,
                                c \in NamedAtoms}
    \cup {Do(steps) : steps \in SeqsUpTo(NamedAtoms, 2)}
    \cup {Do(<< l, a >>) : l \in NamedVarLets, a \in NamedVars}

(***************************************************************************)
(* Init: the state VM::new() builds (vm.rs:17-53).                         *)
(***************************************************************************)
Builtin(f) == [kind |-> "Builtin", f |-> f]
Custom(body) == [kind |-> "Custom", body |-> body]

default_methods ==
    (TypeString :> ("println" :> Builtin("println") @@
                    "concat" :> Builtin("concat")))

InitVM ==
    /\ methods = default_methods
    /\ local_variables = << >>
    /\ class_id_counter = 0
    /\ class_ids = << >>
    /\ program = << >>
    /\ status = "new"
    /\ ctrl = [mode |-> "idle"]
    /\ kont = << >>
    /\ output = << >>
    /\ trace = << >>
    /\ panic = ""

(***************************************************************************)
(* The resolver on its own: a scope and a method are drawn, and one of the *)
(* three entry points is applied to them.                                  *)
(***************************************************************************)
InitResolve ==
    /\ InitVM
    /\ r_in \in [names : Scopes, body : NamedExpressions]
    /\ r_out = << >>

\* resolve.rs:9-66 on an arbitrary ambient scope
ResolveExpression ==
    /\ r_out = << >>
    /\ r_out' = << [by |-> "resolve_expression",
                    result |-> resolve_expression(r_in.names, r_in.body)] >>
    /\ UNCHANGED << vm_vars, r_in >>

\* vm.rs:64-69 on a method whose parameters are r_in.names
ResolveMethod ==
    /\ r_out = << >>
    /\ r_out' = << [by |-> "resolve_method",
                    result |-> resolve_method(
                        ClassMethod("f", r_in.names, r_in.body))] >>
    /\ UNCHANGED << vm_vars, r_in >>

\* expression.rs:30-35
OfResolve ==
    /\ r_out = << >>
    /\ r_out' = << [by |-> "resolve", result |-> resolve(r_in.body)] >>
    /\ UNCHANGED << vm_vars, r_in >>

NextResolve == ResolveExpression \/ ResolveMethod \/ OfResolve

SpecResolve == InitResolve /\ [][NextResolve]_vars

(***************************************************************************)
(* Properties of the resolver (checked under SpecResolve).                 *)
(***************************************************************************)
Resolved(by) == Len(r_out) = 1 /\ r_out[1].by = by

\* The names that occur free in an expression under lexical scoping: a LetIn
\* binds its name in `body` only, not in `bound`.
RECURSIVE FreeNames(_, _)
FreeNames(bound_names, e) ==
    CASE e.k = "Literal" -> {}
      [] e.k = "LocalVariable" ->
            IF e.name_or_de_bruijn_index \in bound_names THEN {}
            ELSE {e.name_or_de_bruijn_index}
      [] e.k = "MethodCall" ->
            FreeNames(bound_names, e.this)
            \cup UNION {FreeNames(bound_names, e.arguments[i]) :
                        i \in DOMAIN e.arguments}
      [] e.k = "LetIn" ->
            FreeNames(bound_names, e.bound)
            \cup FreeNames(bound_names \cup {e.name}, e.body)
      [] e.k = "IfThenElse" ->
            FreeNames(bound_names, e.condition)
            \cup FreeNames(bound_names, e.if_true)
            \cup FreeNames(bound_names, e.if_false)
      [] e.k = "Do" ->
            UNION {FreeNames(bound_names, e.steps[i]) : i \in DOMAIN e.steps}

Range(s) == {s[i] : i \in DOMAIN s}

\* C1: resolving LetIn{name, bound, body} in a scope resolves `bound` in that
\* scope as it was before `name` is pushed and `body` in the scope with `name`
\* pushed, and leaves the scope stack as it found it.
C1_LetInScoping ==
    (Resolved("resolve_expression") /\ r_in.body.k = "LetIn") =>
        LET result == r_out[1].result
            bound == resolve_expression(r_in.names, r_in.body.bound)
            body == resolve_expression(Append(r_in.names, r_in.body.name),
                                       r_in.body.body)
        IN  /\ ~bound.ok => (~result.ok /\ result.err = bound.err)
            /\ (bound.ok /\ body.ok) =>
                  /\ result.ok
                  /\ result.expr = LetIn(<< >>, bound.expr, body.expr)
                  /\ result.scope = r_in.names

\* C4: if some LocalVariable name occurs where no enclosing LetIn body and no
\* entry of the initial scope binds it (the `bound` part of the LetIn that
\* introduces the name included), resolution returns the unbound-variable
\* failure for such a name.
C4_UnboundReported ==
    Resolved("resolve_expression") =>
        LET result == r_out[1].result
            free == FreeNames(Range(r_in.names), r_in.body)
        IN  free # {} => (~result.ok /\ result.err \in free)

\* Every LocalVariable `name` of `named` that is outside any LetIn has index
\* `index` in `resolved`, the resolved form of `named`.
RECURSIVE TopLevelIndexIs(_, _, _, _)
TopLevelIndexIs(named, resolved, name, index) ==
    CASE named.k = "Literal" -> TRUE
      [] named.k = "LocalVariable" ->
            named.name_or_de_bruijn_index = name =>
                resolved.name_or_de_bruijn_index = index
      [] named.k = "MethodCall" ->
            /\ TopLevelIndexIs(named.this, resolved.this, name, index)
            /\ \A i \in DOMAIN named.arguments :
                  TopLevelIndexIs(named.arguments[i], resolved.arguments[i],
                                  name, index)
      [] named.k = "LetIn" -> TRUE
      [] named.k = "IfThenElse" ->
            /\ TopLevelIndexIs(named.condition, resolved.condition, name, index)
            /\ TopLevelIndexIs(named.if_true, resolved.if_true, name, index)
            /\ TopLevelIndexIs(named.if_false, resolved.if_false, name, index)
      [] named.k = "Do" ->
            \A i \in DOMAIN named.steps :
                TopLevelIndexIs(named.steps[i], resolved.steps[i], name, index)

\* The most recently pushed binding resolves to index 0 in any scope.
InnermostIsZero ==
    (/\ Resolved("resolve_expression")
     /\ r_in.body.k = "LocalVariable"
     /\ r_in.names # << >>
     /\ r_in.body.name_or_de_bruijn_index = r_in.names[Len(r_in.names)]) =>
        /\ r_out[1].result.ok
        /\ r_out[1].result.expr = LocalVariable(0)

\* The last-declared parameter of a loaded method resolves to index 0.
LastParameterIsZero ==
    (Resolved("resolve_method") /\ r_out[1].result.ok /\ r_in.names # << >>) =>
        TopLevelIndexIs(r_in.body, r_out[1].result.expr,
                        r_in.names[Len(r_in.names)], 0)

\* C7 as stated: the innermost binding has index 0, and in a method with p
\* parameters of any names a top-level `this` has index p and the
\* last-declared parameter index 0.
C7_Original ==
    /\ InnermostIsZero
    /\ LastParameterIsZero
    /\ (Resolved("resolve_method") /\ r_out[1].result.ok) =>
          TopLevelIndexIs(r_in.body, r_out[1].result.expr, "this",
                          Len(r_in.names))

\* C7 as amended: a top-level `this` has index p when no parameter is itself
\* named `this`; the rest as stated.
C7_DeBruijnIndices ==
    /\ InnermostIsZero
    /\ LastParameterIsZero
    /\ (/\ Resolved("resolve_method")
        /\ r_out[1].result.ok
        /\ "this" \notin Range(r_in.names)) =>
          TopLevelIndexIs(r_in.body, r_out[1].result.expr, "this",
                          Len(r_in.names))

C7_Witness ==
    /\ Resolved("resolve_method")
    /\ r_in.names = << "x", "y" >>
    /\ r_in.body = MethodCall("m", LocalVariable("this"),
                              << LocalVariable("y") >>)
    /\ r_out[1].result.ok
    /\ r_out[1].result.expr = MethodCall("m", LocalVariable(2),
                                         << LocalVariable(0) >>)

(***************************************************************************)
(* vm.rs: load_program.  Each class takes a fresh ClassID; each method's   *)
(* body is resolved and inserted at once into the table of its class.      *)
(* load_program has no failure path of its own (it returns the map of      *)
(* class ids, not a Result): a body that does not resolve ends it on the   *)
(* spot, with everything inserted so far in place.                         *)
(***************************************************************************)
\* vm.rs:97-100
new_class_id(counter) == counter + 1

\* vm.rs:70-76: .entry(type).or_insert_with(Default::default).insert(name, m)
insert_method(table, this_type, name, method) ==
    LET old == IF this_type \in DOMAIN table THEN table[this_type] ELSE << >>
    IN  (this_type :> ((name :> method) @@ old)) @@ table

\* vm.rs:63-77: the methods of one class, in order
RECURSIVE load_methods(_, _, _)
load_methods(table, class_id, class_methods) ==
    IF class_methods = << >> THEN [ok |-> TRUE, methods |-> table]
    ELSE LET method == Head(class_methods)
             body == resolve_method(method)
         IN  IF ~body.ok
             THEN [ok |-> FALSE, methods |-> table, err |-> body.err]
             ELSE load_methods(
                      insert_method(table, TypeObject(class_id), method.name,
                                    Custom(body.expr)),
                      class_id, Tail(class_methods))

\* vm.rs:59-79: the classes, in order
RECURSIVE load_classes(_, _)
load_classes(vm, classes) ==
    IF classes = << >> THEN vm
    ELSE LET class == Head(classes)
             class_id == new_class_id(vm.class_id_counter)
             ids == (class.name :> class_id) @@ vm.class_ids
             loaded == load_methods(vm.methods, class_id, class.methods)
         IN  IF ~loaded.ok
             THEN [ok |-> FALSE, err |-> loaded.err, methods |-> loaded.methods,
                   class_id_counter |-> class_id, class_ids |-> ids]
             ELSE load_classes(
                      [ok |-> TRUE, err |-> "", methods |-> loaded.methods,
                       class_id_counter |-> class_id, class_ids |-> ids],
                      Tail(classes))

(***************************************************************************)
(* vm.rs: helpers of the evaluator.                                        *)
(***************************************************************************)
\* vm.rs:143-149 (and 83-89): self.methods.get(&type) ... .get(name); the
\* result is an Option, << >> for None.
lookup(table, this_type, name) ==
    IF this_type \notin DOMAIN table THEN << >>
    ELSE IF name \notin DOMAIN table[this_type] THEN << >>
    ELSE << table[this_type][name] >>

\* usize is modelled 30 bits wide (TLC's integers are 32 bits wide).
UsizeModulus == 2 ^ 30

\* vm.rs:160: self.local_variables.len() - 1 - *index, wrapping as a release
\* build computes it
variable_position(len, index) == (len - 1 - index) % UsizeModulus

\* vm.rs:32-45: concat's result on Strings
RECURSIVE concat_all(_, _)
concat_all(this, arguments) ==
    IF arguments = << >> THEN this
    ELSE concat_all(this \o Head(arguments).s, Tail(arguments))

Top == kont[Len(kont)]
Pop == SubSeq(kont, 1, Len(kont) - 1)
Evaluate(expression) == [mode |-> "evaluate", expression |-> expression]
Return(value) == [mode |-> "return", value |-> value]
Evaluating(kind) == /\ status = "running"
                    /\ ctrl.mode = "evaluate"
                    /\ ctrl.expression.k = kind
Returning(at) == /\ status = "running"
                 /\ ctrl.mode = "return"
                 /\ kont # << >>
                 /\ Top.at = at

\* (a variant: the failure is swallowed, and the caller goes on with Unit)
PanicRecovers(cause) ==
    /\ ctrl' = Return(Unit)
    /\ kont' = IF kont = << >> THEN kont ELSE Pop
    /\ trace' = Append(trace, [ev |-> "panic", cause |-> cause])
    /\ UNCHANGED << methods, local_variables, class_id_counter, class_ids,
                    program, status, panic, output, r_in, r_out >>

\* A panic (unwrap() on None, todo!(), arithmetic overflow): the process
\* unwinds; nothing of the VM is touched any more.
Panic(cause) ==
    /\ status' = "panicked"
    /\ panic' = cause
    /\ trace' = Append(trace, [ev |-> "panic", cause |-> cause])
    /\ UNCHANGED << methods, local_variables, class_id_counter, class_ids,
                    program, ctrl, kont, output, r_in, r_out >>

\* vm.rs:114-131: invoke_method on a Custom method, up to the evaluation of
\* the body (line 126); the frame keeps local_variable_count.
InvokeCustom(method, this, arguments, callers) ==
    /\ kont' = Append(callers,
                      [at |-> "invoke_method",
                       method |-> method,
                       this |-> this,
                       argument_count |-> Len(arguments),
                       local_variable_count |-> Len(local_variables)])
    /\ local_variables' = (local_variables \o << this >>) \o arguments
    /\ ctrl' = Evaluate(method.body)
    /\ trace' = Append(trace, [ev |-> "invoke", method |-> method,
                               this |-> this, arguments |-> arguments])
    /\ UNCHANGED << methods, class_id_counter, class_ids, program, output,
                    panic, r_in, r_out >>

(***************************************************************************)
(* Programs handed to load_program: the entry class with `main`, a helper  *)
(* method `f`, a second helper `g`, and a class without methods.           *)
(***************************************************************************)
Program(classes) == [classes |-> classes]

ParameterNames == << "p", "q", "r", "s" >>
ParameterLists ==
    {SubSeq(ParameterNames, 1, n) : n \in 0..MaxParams} \cup {<< "this" >>}

Println(e) == MethodCall("println", e, << >>)
Str(s) == Literal(String(s))
This == LocalVariable("this")

Receivers == {Literal(Unit), Literal(Bool(TRUE)), Literal(I32(5)), Str("a"),
              This}
ArgumentExpressions == {Str("b"), Println(Str("x")), Println(Str("y"))}
\* receivers that write a line before they give their value
WritingReceivers == {Println(Str("r")), Do(<< Println(Str("r")), Str("a") >>)}

\* calls of the builtins and of a name no table has
BuiltinCalls ==
    {MethodCall(n, r, args) : n \in {"println", "concat", "nosuch"},
                              r \in Receivers \cup WritingReceivers,
                              args \in SeqsUpTo(ArgumentExpressions, 2)}
\* calls of the helper method f
HelperCalls ==
    {MethodCall("f", r, args) : r \in {This, Str("a")},
                                args \in SeqsUpTo(ArgumentExpressions \cup
                                                  {Literal(I32(5))}, 2)}
    \cup {LetIn("x", Str("a"), MethodCall("f", This, << LocalVariable("x") >>)),
          Do(<< Println(Str("a")),
                MethodCall("f", This, << Str("b") >>),
                Println(Str("c")) >>)}

LetBodies ==
    {LetIn("x", r, LocalVariable("x")) : r \in Receivers}
    \cup {LetIn("x", Str("a"), LetIn("x", Str("b"), LocalVariable("x"))),
          LetIn("x", Str("a"), LetIn("y", Str("b"), LocalVariable("x"))),
          LetIn("x", Str("a"), LetIn("y", LocalVariable("x"),
                                     Println(LocalVariable("y")))),
          LetIn("x", MethodCall("nosuch", Literal(I32(5)), << >>),
                Println(Str("a"))),
          LetIn("x", LocalVariable("x"), Str("a")),
          LetIn("x", Println(Str("a")), Println(Str("b")))}

IfBodies ==
    {IfThenElse(c, Println(Str("t")), Println(Str("e"))) :
        c \in {Literal(Bool(TRUE)), Literal(Bool(FALSE)), Literal(I32(5)),
               MethodCall("nosuch", Literal(Unit), << >>)}}
    \cup {IfThenElse(Literal(Bool(b)), Str("a"), Str("b")) : b \in BOOLEAN}

DoBodies ==
    {Do(steps) : steps \in SeqsUpTo({Str("c"), Println(Str("a")),
                                     Println(Str("b"))}, 2)}
    \cup {Do(<< Println(Str("a")), Println(Str("b")), Str("c") >>),
          Do(<< Println(Str("a")),
                MethodCall("nosuch", Literal(I32(5)), << >>),
                Println(Str("b")) >>),
          Do(<< LetIn("x", Str("a"), Println(LocalVariable("x"))),
                Do(<< >>) >>),
          LetIn("x", Str("a"), Do(<< Println(LocalVariable("x")),
                                     LocalVariable("x") >>)),
          Do(<< Println(Str("a")), LocalVariable("x") >>)}

MainBodies == Receivers \cup BuiltinCalls \cup LetBodies \cup IfBodies
              \cup DoBodies

P == LocalVariable("p")
HelperBodies ==
    {P, This, Str("h"), Println(P),
     LetIn("y", P, LocalVariable("y")),
     LetIn("y", Str("h"), P),
     LetIn("y", This, LocalVariable("y")),
     MethodCall("concat", P, << LocalVariable("q") >>),
     MethodCall("nosuch", P, << >>),
     MethodCall("f", This, << P >>),
     Do(<< Println(P), MethodCall("concat", P, << Str("!") >>) >>),
     IfThenElse(P, Str("t"), Str("e"))}

Helpers == {ClassMethod("f", ps, b) : ps \in ParameterLists, b \in HelperBodies}

MainProgram(main_body, helper) ==
    Program(<< Class("MyMainType", << ClassMethod("main", << >>, main_body),
                                      helper >>),
               Class("Empty", << >>) >>)

Programs ==
    {MainProgram(b, ClassMethod("f", << >>, Str("h"))) : b \in MainBodies}
    \cup {MainProgram(b, h) : b \in HelperCalls, h \in Helpers}
    \cup {Program(<< Class("Library", << ClassMethod("id", << "p" >>, P) >>),
                     Class("MyMainType", << ClassMethod("main", << >>, b) >>) >>) :
             b \in {Str("a"), LocalVariable("z")}}

\* vm.rs:55-80
LoadProgram ==
    /\ status = "new"
    /\ \E p \in Programs :
          LET vm == load_classes([ok |-> TRUE, err |-> "", methods |-> methods,
                                  class_id_counter |-> class_id_counter,
                                  class_ids |-> class_ids], p.classes)
          IN  /\ program' = p
              /\ methods' = vm.methods
              /\ class_id_counter' = vm.class_id_counter
              /\ class_ids' = vm.class_ids
              /\ status' = IF vm.ok THEN "loaded" ELSE "panicked"
              /\ panic' = IF vm.ok THEN "" ELSE "variable is not defined"
              /\ trace' = IF vm.ok THEN trace
                          ELSE Append(trace, [ev |-> "panic",
                                              cause |-> "variable is not defined"])
    /\ UNCHANGED << local_variables, ctrl, kont, output, r_in, r_out >>

\* vm.rs:82-95: run on any class id load_program returned
Run ==
    /\ status = "loaded"
    /\ \E class_name \in DOMAIN class_ids :
          LET main_type == class_ids[class_name]
              main_method == lookup(methods, TypeObject(main_type), "main")
          IN  IF main_method = << >>
              THEN Panic("unwrap on None")
              ELSE /\ InvokeCustom(main_method[1], Object(main_type), << >>,
                                   << >>)
                   /\ status' = "running"

\* vm.rs:135
EvalLiteral ==
    /\ Evaluating("Literal")
    /\ ctrl' = Return(ctrl.expression.value)
    /\ UNCHANGED << methods, local_variables, class_id_counter, class_ids,
                    program, status, kont, output, trace, panic, r_in, r_out >>

\* vm.rs:136-141: the receiver is evaluated first
EvalMethodCall ==
    /\ Evaluating("MethodCall")
    /\ Len(kont) < MaxFrames
    /\ kont' = Append(kont, [at |-> "MethodCall.this",
                             name |-> ctrl.expression.name,
                             arguments |-> ctrl.expression.arguments])
    /\ ctrl' = Evaluate(ctrl.expression.this)
    /\ UNCHANGED << methods, local_variables, class_id_counter, class_ids,
                    program, status, output, trace, panic, r_in, r_out >>

\* vm.rs:142-149: the method is looked up by the receiver's type and the name
Dispatch ==
    /\ Returning("MethodCall.this")
    /\ LET this == ctrl.value
           method == lookup(methods, typ(this), Top.name)
       IN  IF method = << >>
           THEN Panic("unwrap on None")
           ELSE /\ kont' = Append(Pop, [at |-> "MethodCall.arguments",
                                        method |-> method[1],
                                        name |-> Top.name,
                                        this |-> this,
                                        arguments |-> Top.arguments,
                                        collected |-> << >>])
                /\ ctrl' = [mode |-> "arguments"]
                /\ trace' = Append(trace, [ev |-> "lookup",
                                           this_type |-> typ(this),
                                           name |-> Top.name])
                /\ UNCHANGED << methods, local_variables, class_id_counter,
                                class_ids, program, status, output, panic,
                                r_in, r_out >>

CollectingArguments == /\ status = "running"
                       /\ ctrl.mode = "arguments"
                       /\ kont # << >>
                       /\ Top.at = "MethodCall.arguments"

\* (a variant: the arguments are taken right to left)
EvalArgumentFromRight ==
    /\ CollectingArguments
    /\ Len(Top.collected) < Len(Top.arguments)
    /\ ctrl' = Evaluate(Top.arguments[Len(Top.arguments) - Len(Top.collected)])
    /\ UNCHANGED << methods, local_variables, class_id_counter, class_ids,
                    program, status, kont, output, trace, panic, r_in, r_out >>

\* vm.rs:150-153: the next argument, left to right
EvalArgument ==
    /\ CollectingArguments
    /\ Len(Top.collected) < Len(Top.arguments)
    /\ ctrl' = Evaluate(Top.arguments[Len(Top.collected) + 1])
    /\ UNCHANGED << methods, local_variables, class_id_counter, class_ids,
                    program, status, kont, output, trace, panic, r_in, r_out >>

\* vm.rs:150-153: an argument's value is collected
ArgumentDone ==
    /\ Returning("MethodCall.arguments")
    /\ kont' = Append(Pop, [Top EXCEPT !.collected = Append(@, ctrl.value)])
    /\ ctrl' = [mode |-> "arguments"]
    /\ UNCHANGED << methods, local_variables, class_id_counter, class_ids,
                    program, status, output, trace, panic, r_in, r_out >>

ReadyToInvoke(kind) == /\ CollectingArguments
                       /\ Len(Top.collected) = Len(Top.arguments)
                       /\ Top.method.kind = kind

\* vm.rs:154, 122-126
InvokeCustomMethod ==
    /\ ReadyToInvoke("Custom")
    /\ InvokeCustom(Top.method, Top.this, Top.collected, Pop)
    /\ UNCHANGED status

\* vm.rs:154, 121, and the builtins of vm.rs:24-46
InvokeBuiltin ==
    /\ ReadyToInvoke("Builtin")
    /\ LET this == Top.this
           arguments == Top.collected
       IN  IF this.tag # "String"
           THEN Panic("todo")
           ELSE IF Top.method.f = "println"
           THEN /\ output' = Append(output, this.s)
                /\ ctrl' = Return(Unit)
                /\ kont' = Pop
                /\ trace' = Append(trace, [ev |-> "println", line |-> this.s])
                /\ UNCHANGED << methods, local_variables, class_id_counter,
                                class_ids, program, status, panic, r_in, r_out >>
           ELSE IF \E i \in DOMAIN arguments : arguments[i].tag # "String"
           THEN Panic("todo")
           ELSE /\ ctrl' = Return(String(concat_all(this.s, arguments)))
                /\ kont' = Pop
                /\ UNCHANGED << methods, local_variables, class_id_counter,
                                class_ids, program, status, output, trace,
                                panic, r_in, r_out >>

\* vm.rs:127-128: the stack is cut back to the recorded length; the outermost
\* invocation is run's (vm.rs:94), which ends the run
InvokeReturn ==
    /\ Returning("invoke_method")
    /\ local_variables' = SubSeq(local_variables, 1, Top.local_variable_count)
    /\ kont' = Pop
    /\ status' = IF Pop = << >> THEN "done" ELSE status
    /\ trace' = Append(trace, [ev |-> "invoke_end",
                               length |-> Len(local_variables'),
                               local_variable_count |->
                                   Top.local_variable_count])
    /\ UNCHANGED << methods, class_id_counter, class_ids, program, ctrl,
                    output, panic, r_in, r_out >>

\* vm.rs:156-162: a debug build panics on the subtraction when it overflows;
\* a release build wraps, and get() then finds nothing
EvalLocalVariable ==
    /\ Evaluating("LocalVariable")
    /\ LET len == Len(local_variables)
           index == ctrl.expression.name_or_de_bruijn_index
           position == variable_position(len, index)
       IN  IF len - 1 - index < 0
           THEN \E cause \in {"subtract with overflow",
                              "unwrap on None"} :
                    Panic(cause)
           ELSE IF position >= len
           THEN Panic("unwrap on None")
           ELSE /\ ctrl' = Return(local_variables[position + 1])
                /\ trace' = Append(trace, [ev |-> "read", index |-> index,
                                           position |-> position,
                                           frames |-> Len(kont)])
                /\ UNCHANGED << methods, local_variables, class_id_counter,
                                class_ids, program, status, kont, output,
                                panic, r_in, r_out >>

\* vm.rs:163-168
EvalLetIn ==
    /\ Evaluating("LetIn")
    /\ Len(kont) < MaxFrames
    /\ kont' = Append(kont, [at |-> "LetIn.bound",
                             body |-> ctrl.expression.body])
    /\ ctrl' = Evaluate(ctrl.expression.bound)
    /\ UNCHANGED << methods, local_variables, class_id_counter, class_ids,
                    program, status, output, trace, panic, r_in, r_out >>

\* vm.rs:169-170
LetBind ==
    /\ Returning("LetIn.bound")
    /\ local_variables' = Append(local_variables, ctrl.value)
    /\ kont' = Append(Pop, [at |-> "LetIn.body"])
    /\ ctrl' = Evaluate(Top.body)
    /\ UNCHANGED << methods, class_id_counter, class_ids, program, status,
                    output, trace, panic, r_in, r_out >>

\* vm.rs:171-172
LetExit ==
    /\ Returning("LetIn.body")
    /\ local_variables' = SubSeq(local_variables, 1, Len(local_variables) - 1)
    /\ kont' = Pop
    /\ UNCHANGED << methods, class_id_counter, class_ids, program, status,
                    ctrl, output, trace, panic, r_in, r_out >>

\* vm.rs:174-179
EvalIfThenElse ==
    /\ Evaluating("IfThenElse")
    /\ Len(kont) < MaxFrames
    /\ kont' = Append(kont, [at |-> "IfThenElse.condition",
                             if_true |-> ctrl.expression.if_true,
                             if_false |-> ctrl.expression.if_false])
    /\ ctrl' = Evaluate(ctrl.expression.condition)
    /\ UNCHANGED << methods, local_variables, class_id_counter, class_ids,
                    program, status, output, trace, panic, r_in, r_out >>

\* vm.rs:179-184
IfBranch ==
    /\ Returning("IfThenElse.condition")
    /\ IF ctrl.value.tag # "Bool"
       THEN Panic("todo")
       ELSE /\ ctrl' = Evaluate(IF ctrl.value.b THEN Top.if_true
                                ELSE Top.if_false)
            /\ kont' = Pop
            /\ UNCHANGED << methods, local_variables, class_id_counter,
                            class_ids, program, status, output, trace, panic,
                            r_in, r_out >>

\* vm.rs:186-190: steps.iter().map(..).last() takes the steps one after the
\* other and keeps the value of the latest; with no step it is None, and
\* unwrap_or gives Unit.  `taken` counts the steps the iterator has yielded;
\* `entry_length` remembers the stack length on entry.
EvalDo ==
    /\ Evaluating("Do")
    /\ Len(kont) < MaxFrames
    /\ LET steps == ctrl.expression.steps
       IN  IF steps = << >>
           THEN /\ ctrl' = Return(Unit)
                /\ UNCHANGED kont
           ELSE /\ ctrl' = Evaluate(steps[1])
                /\ kont' = Append(kont, [at |-> "Do", steps |-> steps,
                                         taken |-> 1,
                                         entry_length |-> Len(local_variables)])
    /\ UNCHANGED << methods, local_variables, class_id_counter, class_ids,
                    program, status, output, trace, panic, r_in, r_out >>

\* (a variant: .next() for .last(), only the first step is taken)
DoStepFirstOnly ==
    /\ Returning("Do")
    /\ ctrl' = Return(ctrl.value)
    /\ kont' = Pop
    /\ UNCHANGED << methods, local_variables, class_id_counter, class_ids,
                    program, status, output, trace, panic, r_in, r_out >>

DoStep ==
    /\ Returning("Do")
    /\ IF Top.taken < Len(Top.steps)
       THEN /\ ctrl' = Evaluate(Top.steps[Top.taken + 1])
            /\ kont' = Append(Pop, [Top EXCEPT !.taken = @ + 1])
       ELSE /\ ctrl' = Return(ctrl.value)
            /\ kont' = Pop
    /\ UNCHANGED << methods, local_variables, class_id_counter, class_ids,
                    program, status, output, trace, panic, r_in, r_out >>

Init ==
    /\ InitVM
    /\ r_in = [names |-> << >>, body |-> Literal(Unit)]
    /\ r_out = << >>

Next ==
    \/ LoadProgram
    \/ Run
    \/ EvalLiteral
    \/ EvalMethodCall
    \/ Dispatch
    \/ EvalArgument
    \/ ArgumentDone
    \/ InvokeCustomMethod
    \/ InvokeBuiltin
    \/ InvokeReturn
    \/ EvalLocalVariable
    \/ EvalLetIn
    \/ LetBind
    \/ LetExit
    \/ EvalIfThenElse
    \/ IfBranch
    \/ EvalDo
    \/ DoStep

Spec == Init /\ [][Next]_vars

(***************************************************************************)
(* Name-based lexical scoping, the reference the evaluator is compared     *)
(* with: the named form is evaluated against an environment of (name,      *)
(* value) pairs, innermost last.  `fuel` bounds the depth of method calls. *)
(***************************************************************************)
Fail(out) == [ok |-> FALSE, out |-> out]
Value(value, out) == [ok |-> TRUE, value |-> value, out |-> out]

RECURSIVE EnvLookup(_, _)
EnvLookup(env, name) ==
    IF env = << >> THEN << >>
    ELSE IF env[Len(env)].name = name THEN << env[Len(env)].value >>
    ELSE EnvLookup(SubSeq(env, 1, Len(env) - 1), name)

\* the method `name` of the class with id `class_id`: the last one declared
DeclaredMethod(class_id, name) ==
    LET found == {<< c, m >> \in (DOMAIN program.classes) \X (1..4) :
                     /\ class_ids[program.classes[c].name] = class_id
                     /\ m \in DOMAIN program.classes[c].methods
                     /\ program.classes[c].methods[m].name = name}
    IN  IF found = {} THEN << >>
        ELSE LET last == CHOOSE cm \in found :
                             \A other \in found : other[2] <= cm[2]
             IN  << program.classes[last[1]].methods[last[2]] >>

RECURSIVE NamedEval(_, _, _, _)
RECURSIVE NamedEvalAll(_, _, _, _)
RECURSIVE NamedEvalDo(_, _, _, _, _)

NamedCall(env, e, out, fuel) ==
    LET this == NamedEval(env, e.this, out, fuel)
    IN  IF ~this.ok THEN this
        ELSE LET arguments == NamedEvalAll(env, e.arguments, this.out, fuel)
             IN  IF ~arguments.ok THEN arguments
                 ELSE IF this.value.tag = "String" /\ e.name = "println"
                 THEN Value(Unit, Append(arguments.out, this.value.s))
                 ELSE IF this.value.tag = "String" /\ e.name = "concat"
                 THEN IF \E i \in DOMAIN arguments.values :
                             arguments.values[i].tag # "String"
                      THEN Fail(arguments.out)
                      ELSE Value(String(concat_all(this.value.s,
                                                   arguments.values)),
                                 arguments.out)
                 ELSE IF this.value.tag # "Object" THEN Fail(arguments.out)
                 ELSE LET method == DeclaredMethod(this.value.class, e.name)
                      IN  IF \/ method = << >>
                             \/ fuel = 0
                             \/ Len(method[1].parameters)
                                    # Len(arguments.values)
                          THEN Fail(arguments.out)
                          ELSE NamedEval(
                                   << [name |-> "this", value |-> this.value] >>
                                   \o [i \in DOMAIN arguments.values |->
                                         [name |-> method[1].parameters[i],
                                          value |-> arguments.values[i]]],
                                   method[1].body, arguments.out, fuel - 1)

NamedEval(env, e, out, fuel) ==
    CASE e.k = "Literal" -> Value(e.value, out)
      [] e.k = "LocalVariable" ->
            LET found == EnvLookup(env, e.name_or_de_bruijn_index)
            IN  IF found = << >> THEN Fail(out) ELSE Value(found[1], out)
      [] e.k = "MethodCall" -> NamedCall(env, e, out, fuel)
      [] e.k = "LetIn" ->
            LET bound == NamedEval(env, e.bound, out, fuel)
            IN  IF ~bound.ok THEN bound
                ELSE NamedEval(Append(env, [name |-> e.name,
                                            value |-> bound.value]),
                               e.body, bound.out, fuel)
      [] e.k = "IfThenElse" ->
            LET condition == NamedEval(env, e.condition, out, fuel)
            IN  IF ~condition.ok THEN condition
                ELSE IF condition.value.tag # "Bool" THEN Fail(condition.out)
                ELSE NamedEval(env, IF condition.value.b THEN e.if_true
                                    ELSE e.if_false, condition.out, fuel)
      [] e.k = "Do" -> NamedEvalDo(env, e.steps, Unit, out, fuel)

NamedEvalAll(env, es, out, fuel) ==
    IF es = << >> THEN [ok |-> TRUE, values |-> << >>, out |-> out]
    ELSE LET first == NamedEval(env, Head(es), out, fuel)
         IN  IF ~first.ok THEN first
             ELSE LET rest == NamedEvalAll(env, Tail(es), first.out, fuel)
                  IN  IF ~rest.ok THEN rest
                      ELSE [ok |-> TRUE,
                            values |-> << first.value >> \o rest.values,
                            out |-> rest.out]

NamedEvalDo(env, steps, last, out, fuel) ==
    IF steps = << >> THEN Value(last, out)
    ELSE LET step == NamedEval(env, Head(steps), out, fuel)
         IN  IF ~step.ok THEN step
             ELSE NamedEvalDo(env, Tail(steps), step.value, step.out, fuel)

(***************************************************************************)
(* Properties of the evaluator (checked under Spec).                       *)
(***************************************************************************)
Finished == status \in {"done", "panicked"}
\* run has invoked main: the first event is that invocation
RunStarted == trace # << >> /\ trace[1].ev = "invoke"
MainThis == trace[1].this
MainBody == DeclaredMethod(MainThis.class, "main")[1].body

\* C2: where the named program has a value under name-based lexical scoping
\* (every variable bound, every call of a declared method with as many
\* arguments as parameters), running the resolved program ends without
\* failure with that value and that output.
C2_AgreesWithLexicalScoping ==
    (RunStarted /\ Finished) =>
        LET reference == NamedEval(<< [name |-> "this", value |-> MainThis] >>,
                                   MainBody, << >>, MaxFrames)
        IN  reference.ok =>
               /\ status = "done"
               /\ ctrl.value = reference.value
               /\ output = reference.out

\* The outcome the error kinds of the design would give: a failure value
\* handed back to the caller of evaluate_expression.
NoSuchMethod(this_type, name) ==
    [mode |-> "error", kind |-> "NoSuchMethod", this_type |-> this_type,
     name |-> name]

\* the receiver has just been evaluated and its type has no entry `name`
DispatchFails ==
    /\ RunStarted
    /\ ctrl.mode = "return"
    /\ kont # << >>
    /\ Top.at = "MethodCall.this"
    /\ lookup(methods, typ(ctrl.value), Top.name) = << >>

\* C3: when an invocation of a Custom method has ended, by a value or by a
\* failure of its body, the stack is as long as it was before the receiver
\* was pushed.  (When the run has ended every invocation has, run's own, which
\* started on the empty stack, last.)
C3_StackRestored ==
    /\ \A i \in DOMAIN trace :
          trace[i].ev = "invoke_end" =>
              trace[i].length = trace[i].local_variable_count
    /\ (RunStarted /\ Finished) => Len(local_variables) = 0

\* C5: a MethodCall whose receiver's type has no table, or no entry `name`,
\* ends with the NoSuchMethod(T, name) failure handed to its caller; the
\* process is not aborted.
C5_NoSuchMethodReported ==
    [][DispatchFails =>
          /\ status' = "running"
          /\ ctrl' = NoSuchMethod(typ(ctrl.value), Top.name)]_vars

HasBadMethod(p) ==
    \E c \in DOMAIN p.classes :
        \E m \in DOMAIN p.classes[c].methods :
            ~resolve_method(p.classes[c].methods[m]).ok

\* C6: after load_program was handed a program one of whose method bodies
\* does not resolve, the dispatch table and the registered classes are what
\* they were before the call.
C6_LoadAllOrNothing ==
    (status # "new" /\ HasBadMethod(program)) =>
        /\ methods = default_methods
        /\ class_id_counter = 0

\* the lines the println events of a history wrote, in order
RECURSIVE Printed(_)
Printed(events) ==
    IF events = << >> THEN << >>
    ELSE (IF Head(events).ev = "println" THEN << Head(events).line >>
          ELSE << >>) \o Printed(Tail(events))

\* C8: a failure is the last thing that happens: once a sub-evaluation has
\* failed the run has failed as a whole, nothing is evaluated or written any
\* more, and the lines written before the failure are all there, in order.
C8_FailureAborts ==
    /\ \A i \in DOMAIN trace :
          trace[i].ev = "panic" => (i = Len(trace) /\ status = "panicked")
    /\ output = Printed(trace)
    /\ status = "panicked" => ~ENABLED Next

\* a Do whose second of three steps failed, after the first wrote its line
C8_Witness ==
    /\ status = "panicked"
    /\ output = << "a" >>
    /\ \E i \in DOMAIN kont :
          kont[i].at = "Do" /\ kont[i].taken = 2 /\ Len(kont[i].steps) = 3

\* Expressions whose value and output are plain to read off: a literal, the
\* receiver of main, println of a literal string, a Do of such.
RECURSIVE Simple(_)
Simple(e) ==
    CASE e.k = "Literal" -> TRUE
      [] e.k = "LocalVariable" -> e.name_or_de_bruijn_index = "this"
      [] e.k = "MethodCall" ->
            /\ e.name = "println"
            /\ e.arguments = << >>
            /\ e.this.k = "Literal"
            /\ e.this.value.tag = "String"
      [] e.k = "Do" -> \A i \in DOMAIN e.steps : Simple(e.steps[i])
      [] OTHER -> FALSE

RECURSIVE SimpleValue(_)
SimpleValue(e) ==
    CASE e.k = "Literal" -> e.value
      [] e.k = "LocalVariable" -> MainThis
      [] e.k = "MethodCall" -> Unit
      [] e.k = "Do" -> IF e.steps = << >> THEN Unit
                       ELSE SimpleValue(e.steps[Len(e.steps)])

RECURSIVE Lines(_)
RECURSIVE LinesOfAll(_)
Lines(e) ==
    CASE e.k = "MethodCall" -> << e.this.value.s >>
      [] e.k = "Do" -> LinesOfAll(e.steps)
      [] OTHER -> << >>
LinesOfAll(es) ==
    IF es = << >> THEN << >> ELSE Lines(Head(es)) \o LinesOfAll(Tail(es))

\* C9: Do(steps) evaluates every step once, in order, gives the value of the
\* last step (Unit when there is none), and pushes nothing: whenever a step
\* has given its value the stack is as long as when the Do was entered.
C9_DoEvaluation ==
    /\ Returning("Do") => Len(local_variables) = Top.entry_length
    /\ (RunStarted /\ Finished /\ MainBody.k = "Do" /\ Simple(MainBody)) =>
          /\ status = "done"
          /\ output = Lines(MainBody)
          /\ ctrl.value = SimpleValue(MainBody)
          /\ local_variables = << >>

C9_Witness ==
    /\ RunStarted
    /\ status = "done"
    /\ MainBody = Do(<< Println(Str("a")), Println(Str("b")), Str("c") >>)
    /\ output = << "a", "b" >>
    /\ ctrl.value = String("c")

\* a call of a builtin name, or of a name no table has, with a simple
\* receiver and simple arguments
SimpleCall(e) ==
    /\ e.k = "MethodCall"
    /\ e.name \in {"println", "concat", "nosuch"}
    /\ Simple(e.this)
    /\ \A i \in DOMAIN e.arguments : Simple(e.arguments[i])

HasEntry(this_type, name) ==
    this_type \in DOMAIN methods /\ name \in DOMAIN methods[this_type]

\* what such a call writes: the receiver's lines; then, if the table has the
\* entry, the arguments' lines from left to right; then what the method writes
CallLines(e) ==
    Lines(e.this)
    \o (IF ~HasEntry(typ(SimpleValue(e.this)), e.name) THEN << >>
        ELSE LinesOfAll(e.arguments)
             \o (IF e.name = "println" THEN << SimpleValue(e.this).s >>
                 ELSE << >>))

CallFails(e) ==
    \/ ~HasEntry(typ(SimpleValue(e.this)), e.name)
    \/ /\ e.name = "concat"
       /\ \E i \in DOMAIN e.arguments :
              SimpleValue(e.arguments[i]).tag # "String"

\* C10: a MethodCall evaluates its receiver, looks up (type of the receiver,
\* name), evaluates the arguments from left to right, and invokes; the method
\* is the table's entry for that type and name whatever the arguments are; when
\* there is no entry no argument is evaluated.
C10_DispatchOrder ==
    /\ \A i \in DOMAIN kont :
          kont[i].at = "MethodCall.arguments" =>
              /\ HasEntry(typ(kont[i].this), kont[i].name)
              /\ kont[i].method = methods[typ(kont[i].this)][kont[i].name]
    /\ (RunStarted /\ Finished /\ SimpleCall(MainBody)) =>
          /\ output = CallLines(MainBody)
          /\ (status = "panicked") = CallFails(MainBody)

C10_Witness ==
    /\ RunStarted
    /\ status = "done"
    /\ MainBody = MethodCall("println", Do(<< Println(Str("r")), Str("a") >>),
                             << Println(Str("x")), Println(Str("y")) >>)
    /\ output = << "r", "x", "y", "a" >>

\* a failed lookup: the receiver wrote its line, the argument did not
C10_WitnessNoEntry ==
    /\ status = "panicked"
    /\ RunStarted
    /\ MainBody = MethodCall("nosuch", Println(Str("r")),
                             << Println(Str("x")) >>)
    /\ output = << "r" >>

(***************************************************************************)
(* The invocation an evaluation belongs to: the innermost invoke_method    *)
(* frame.                                                                  *)
(***************************************************************************)
InnermostInvoke ==
    CHOOSE i \in DOMAIN kont :
        /\ kont[i].at = "invoke_method"
        /\ \A j \in DOMAIN kont : kont[j].at = "invoke_method" => j <= i
InvocationBase == kont[InnermostInvoke].local_variable_count

\* the declared methods of the receiver's class that the invoked method can
\* have been loaded from
DeclaredAs(frame) ==
    {cm \in (DOMAIN program.classes) \X (1..4) :
        /\ class_ids[program.classes[cm[1]].name] = frame.this.class
        /\ cm[2] \in DOMAIN program.classes[cm[1]].methods
        /\ Custom(resolve_method(
               program.classes[cm[1]].methods[cm[2]]).expr) = frame.method}

\* the invocation was given as many arguments as the method declares
ArityMatches(frame) ==
    \A cm \in DeclaredAs(frame) :
        Len(program.classes[cm[1]].methods[cm[2]].parameters)
            = frame.argument_count

\* The length of the resolver's scope stack when it resolved the position
\* now evaluated: "this" and the parameters (vm.rs:65-67), and one name for
\* every LetIn whose `bound` or `body` the position is in (resolve.rs:40
\* pushes the name before either is resolved).
ResolverScopeLength ==
    1 + kont[InnermostInvoke].argument_count
      + Cardinality({j \in (InnermostInvoke + 1)..Len(kont) :
                        kont[j].at \in {"LetIn.bound", "LetIn.body"}})

\* C11: at every expression position of a method invoked with as many
\* arguments as it declares parameters, the stack entries above the
\* invocation's recorded base are as many as the resolver's scope was long
\* when it resolved that position.
C11_DepthAgreement ==
    (/\ status = "running"
     /\ ctrl.mode = "evaluate"
     /\ ArityMatches(kont[InnermostInvoke])) =>
        Len(local_variables) - InvocationBase = ResolverScopeLength

IndexOutOfRange == [mode |-> "error", kind |-> "IndexOutOfRange"]

\* C12: on a stack of length n, LocalVariable{i} with i >= n ends with the
\* IndexOutOfRange failure handed to the caller (no value, no wrap-around to
\* an existing slot, no abort of the process), and with i < n gives the entry
\* at position n - 1 - i.
C12_IndexOutOfRange ==
    [][Evaluating("LocalVariable") =>
          LET n == Len(local_variables)
              i == ctrl.expression.name_or_de_bruijn_index
          IN  IF i >= n
              THEN status' = "running" /\ ctrl' = IndexOutOfRange
              ELSE ctrl' = Return(local_variables[(n - 1 - i) + 1])]_vars

\* C13: whatever the number of arguments a Custom method was invoked with,
\* every LocalVariable read in its body that gives a value gives one pushed
\* by that invocation (receiver, argument or LetIn): the position read is
\* never below the base length the invocation recorded.
C13_FrameIsolation ==
    [][(Evaluating("LocalVariable") /\ ctrl'.mode = "return") =>
          variable_position(Len(local_variables),
                            ctrl.expression.name_or_de_bruijn_index)
              >= InvocationBase]_vars

====
